---- MODULE Spec2Model ----
(***************************************************************************)
(* A model of scripts/fetch_hackathons.py: main() loads the curated list,  *)
(* categorize_hackathons() classifies every record against the reference   *)
(* instant and builds the statistics, fetch_additional_hackathons() asks   *)
(* the external source, and main() writes data/hackathons.json and         *)
(* data/last_update.txt.                                                   *)
(*                                                                         *)
(* Time is counted in whole hours.  A date string is a record              *)
(* [iso, wall, off]: iso says whether datetime.fromisoformat accepts the   *)
(* text, wall is the wall-clock reading written in it and off the UTC      *)
(* offset written after it; the instant it denotes is wall - off.          *)
(* A Python dict key that may be missing is a sequence of length 0 or 1.   *)
(* statistics.avg_duration_days (a rounded float) is left out.             *)
(***************************************************************************)
EXTENDS Integers, Sequences, FiniteSets, TLC

VARIABLES
    hackathons,    \* the curated list handed to categorize_hackathons
    external,      \* what the external source would return
    current_date,  \* the reference instant
    pc,            \* where main is
    err,           \* the exception that ended the run, "none" otherwise
    i,             \* records the loop of categorize_hackathons has taken
    ongoing,       \* categorized["ongoing"]
    upcoming,      \* categorized["upcoming"]
    completed,     \* categorized["completed"]
    statistics,    \* categorized["statistics"]
    total_prizes,  \* local accumulator of categorize_hackathons
    categories,    \* local dict tag -> count, in insertion order
    additional,    \* main's local: the result of fetch_additional_hackathons
    file,          \* what this run has written to data/hackathons.json
    stamp          \* data/last_update.txt has been written

vars == <<hackathons, external, current_date, pc, err, i, ongoing, upcoming,
          completed, statistics, total_prizes, categories, additional, file,
          stamp>>

----------------------------------------------------------------------------
(* Bounds of the model *)

MaxRecords == 2
MaxBatch == 4
MaxHour == 3

(* Numbers written in the program *)

HoursPerDay == 24
UrgentDays == 3
RecentDays == 7
SoonDays == 7
MonthDays == 30
TopN == 5

----------------------------------------------------------------------------
(* Optional dict keys *)

None == <<>>
Some(v) == <<v>>

(* Strings as sequences of characters *)

Digits == {"0", "1", "2", "3", "4", "5", "6", "7", "8", "9"}

DigitValue(c) ==
    CASE c = "0" -> 0 [] c = "1" -> 1 [] c = "2" -> 2 [] c = "3" -> 3
      [] c = "4" -> 4 [] c = "5" -> 5 [] c = "6" -> 6 [] c = "7" -> 7
      [] c = "8" -> 8 [] c = "9" -> 9

\* str.replace(c, ''): every occurrence of character c removed
RECURSIVE Remove(_, _)
Remove(s, c) ==
    IF s = <<>> THEN <<>>
    ELSE IF Head(s) = c THEN Remove(Tail(s), c)
    ELSE <<Head(s)>> \o Remove(Tail(s), c)

\* ''.join(filter(str.isdigit, s)): the digits of s, in order
RECURSIVE FilterDigits(_)
FilterDigits(s) ==
    IF s = <<>> THEN <<>>
    ELSE IF Head(s) \in Digits THEN <<Head(s)>> \o FilterDigits(Tail(s))
    ELSE FilterDigits(Tail(s))

\* int(s) of a non-empty string of digits
RECURSIVE IntOfDigits(_)
IntOfDigits(s) ==
    IF s = <<>> THEN 0
    ELSE 10 * IntOfDigits(SubSeq(s, 1, Len(s) - 1)) + DigitValue(s[Len(s)])

----------------------------------------------------------------------------
(* Dates *)

IsoDate(w, o) == [iso |-> TRUE, wall |-> w, off |-> o]
BadDate == [iso |-> FALSE, wall |-> 0, off |-> 0]

\* datetime.fromisoformat(s.replace('Z', '+00:00')) raises ValueError or not
Parses(d) == d.iso

\* the instant datetime.fromisoformat returns
fromisoformat(d) == d.wall - d.off

\* timedelta.days and timedelta.seconds // 3600 of a difference of instants
TdDays(delta) == delta \div HoursPerDay
TdHours(delta) == delta % HoursPerDay

----------------------------------------------------------------------------
(* categorize_hackathons: what one pass of the loop computes *)

\* for tag in hackathon["tags"]: categories[tag] = categories.get(tag, 0) + 1
CountTag(cats, tag) ==
    IF \E k \in 1..Len(cats) : cats[k].name = tag
    THEN [k \in 1..Len(cats) |->
            IF cats[k].name = tag
            THEN [cats[k] EXCEPT !.count = @ + 1]
            ELSE cats[k]]
    ELSE Append(cats, [name |-> tag, count |-> 1])

RECURSIVE CountTags(_, _)
CountTags(cats, tags) ==
    IF tags = <<>> THEN cats
    ELSE CountTags(CountTag(cats, Head(tags)), Tail(tags))

\* the digits int() is given
PrizeDigits(prizePool) == FilterDigits(Remove(Remove(prizePool, "$"), ","))

\* int() raises ValueError on the empty string: the except branch
PrizeParses(prizePool) == PrizeDigits(prizePool) # <<>>

PrizeAmount(prizePool) ==
    IF PrizeParses(prizePool) THEN IntOfDigits(PrizeDigits(prizePool)) ELSE 0

\* int(x * 100) of the double x = a / b, for 0 <= a <= b and b > 0.  The
\* quotient 100a/b is truncated; the doubles nearest 0.29, 0.57 and 0.58
\* times 100 fall just under 29, 57 and 58.
FloatPercent(a, b) ==
    LET exact == (100 * a) \div b
    IN  IF (100 * a) % b = 0 /\ exact \in {29, 57, 58}
        THEN exact - 1
        ELSE exact

Min(a, b) == IF a < b THEN a ELSE b
Max(a, b) == IF a > b THEN a ELSE b

\* round() in place of int()
ProgressRounded(start, end, ref) ==
    Min(100, Max(0, (200 * (ref - start) + (end - start))
                        \div (2 * (end - start))))

\* min(100, max(0, int(progress * 100)))
Progress(start, end, ref) ==
    Min(100, Max(0, FloatPercent(ref - start, end - start)))

\* the branch of the if / elif / else at the end of the loop
Status(start, end, ref) ==
    IF end < ref THEN "completed"
    ELSE IF start <= ref /\ ref <= end THEN "ongoing"
    ELSE "upcoming"

\* the division of the ongoing branch by a zero duration
DividesByZero(start, end, ref) ==
    Status(start, end, ref) = "ongoing" /\ end - start = 0

\* "Calculate time remaining/passed" and the registration countdown in it
Remaining(h, end, reg, ref) ==
    IF ref <= end
    THEN [h EXCEPT
            !.days_remaining = Some(TdDays(end - ref)),
            !.hours_remaining =
                Some(TdHours(end - ref) + TdDays(end - ref) * HoursPerDay),
            !.registration_days_remaining =
                IF ref < reg THEN Some(TdDays(reg - ref)) ELSE @,
            !.registration_hours_remaining =
                IF ref < reg
                THEN Some(TdHours(reg - ref) + TdDays(reg - ref) * HoursPerDay)
                ELSE @]
    ELSE [h EXCEPT !.days_passed = Some(TdDays(ref - end))]

\* "Registration status with detailed info"
Registration(h, reg, ref) ==
    IF ref < reg
    THEN [h EXCEPT
            !.registration_status = Some("open"),
            !.registration_urgency =
                Some(IF TdDays(reg - ref) > UrgentDays
                     THEN "normal" ELSE "urgent")]
    ELSE [h EXCEPT !.registration_status = Some("closed")]

\* "Extract prize amount for statistics"
Prize(h) == [h EXCEPT !.prize_amount = Some(PrizeAmount(h.prizePool))]

\* the keys the chosen branch sets
Branch(h, start, end, ref) ==
    LET st == Status(start, end, ref)
    IN  IF st = "completed"
        THEN [h EXCEPT
                !.status = Some(st),
                !.completion_status =
                    Some(IF TdDays(ref - end) <= RecentDays
                         THEN "recently_ended" ELSE "ended")]
        ELSE IF st = "ongoing"
        THEN [h EXCEPT
                !.status = Some(st),
                !.progress_percentage = Some(Progress(start, end, ref))]
        ELSE [h EXCEPT
                !.status = Some(st),
                !.urgency =
                    Some(IF TdDays(start - ref) <= SoonDays
                         THEN "starting_soon"
                         ELSE IF TdDays(start - ref) <= MonthDays
                         THEN "this_month" ELSE "future")]

\* the raw record as a dict none of whose derived keys is set yet
Raw(h) ==
    [idx |-> h.idx,
     source |-> h.source,
     start_date |-> h.start_date,
     end_date |-> h.end_date,
     registration_deadline |-> h.registration_deadline,
     prizePool |-> h.prizePool,
     tags |-> h.tags,
     registration_link |-> h.registration_link,
     duration_days |-> None,
     days_remaining |-> None,
     hours_remaining |-> None,
     registration_days_remaining |-> None,
     registration_hours_remaining |-> None,
     days_passed |-> None,
     registration_status |-> None,
     registration_urgency |-> None,
     prize_amount |-> None,
     status |-> None,
     completion_status |-> None,
     progress_percentage |-> None,
     urgency |-> None]

\* the record as the loop leaves it, for a record whose dates parse and
\* whose branch does not divide by zero
Classified(h, ref) ==
    LET start == fromisoformat(h.start_date)
        end == fromisoformat(h.end_date)
        reg == fromisoformat(h.registration_deadline)
        h1 == [Raw(h) EXCEPT !.duration_days = Some(TdDays(end - start))]
    IN  Branch(Prize(Registration(Remaining(h1, end, reg, ref), reg, ref)),
               start, end, ref)

\* the upcoming branch counting itself as ongoing
BumpCountPasted(stats, st) ==
    IF st = "completed"
    THEN [stats EXCEPT !.completed_count = @ + 1]
    ELSE [stats EXCEPT !.ongoing_count = @ + 1]

\* categorized["statistics"]["<status>_count"] += 1
BumpCount(stats, st) ==
    IF st = "completed"
    THEN [stats EXCEPT !.completed_count = @ + 1]
    ELSE IF st = "ongoing"
    THEN [stats EXCEPT !.ongoing_count = @ + 1]
    ELSE [stats EXCEPT !.upcoming_count = @ + 1]

----------------------------------------------------------------------------
(* categorize_hackathons: statistics and ordering after the loop *)

\* tuple comparison, on keys of equal length
LexLess(a, b) ==
    \E k \in 1..Len(a) : a[k] < b[k] /\ \A j \in 1..(k - 1) : a[j] = b[j]

\* sorted(s, key=..., reverse=reverse), keys[k] being the key of s[k]:
\* stable, also when reversed
Sorted(s, keys, reverse) ==
    LET n == Len(s)
        Before(j, k) ==
            IF reverse
            THEN LexLess(keys[k], keys[j])
            ELSE LexLess(keys[j], keys[k])
        Pos(k) ==
            1 + Cardinality({j \in 1..n :
                    Before(j, k) \/ (j < k /\ ~Before(k, j))})
    IN  [p \in 1..n |-> s[CHOOSE k \in 1..n : Pos(k) = p]]

\* the order of two date strings as text: the wall-clock part, then the
\* offset suffix, where "+.." sorts before "-.." and both before "Z"
SuffixRank(o) == IF o > 0 THEN o ELSE IF o < 0 THEN 100 - o ELSE 1000
StringKey(d) == <<d.wall, SuffixRank(d.off)>>

CountKey(c) == <<c.count>>
EndKey(h) == StringKey(h.end_date)
DeadlineStartKey(h) ==
    StringKey(h.registration_deadline) \o StringKey(h.start_date)

\* sorted(...)[::-1][:5] in place of reverse=True: equal counts change places
TopCategoriesFlipped(cats) ==
    LET up == Sorted(cats, [k \in 1..Len(cats) |-> CountKey(cats[k])], FALSE)
        down == [p \in 1..Len(up) |-> up[Len(up) + 1 - p]]
    IN  SubSeq(down, 1, Min(TopN, Len(cats)))

\* sorted(categories.items(), key=lambda x: x[1], reverse=True)[:5]
TopCategories(cats) ==
    SubSeq(Sorted(cats, [k \in 1..Len(cats) |-> CountKey(cats[k])], TRUE),
           1, Min(TopN, Len(cats)))

SortOngoing(s) == Sorted(s, [k \in 1..Len(s) |-> EndKey(s[k])], FALSE)
SortUpcoming(s) ==
    Sorted(s, [k \in 1..Len(s) |-> DeadlineStartKey(s[k])], FALSE)
SortCompleted(s) == Sorted(s, [k \in 1..Len(s) |-> EndKey(s[k])], TRUE)

----------------------------------------------------------------------------
(* The sources *)

Link(scheme, www, rest, slash, query) ==
    [scheme |-> scheme, www |-> www, rest |-> rest, slash |-> slash,
     query |-> query]

\* str.lower() on the host-and-path texts the model uses
Lower(t) == IF t = "X.COM/e/42" THEN "x.com/e/42" ELSE t

\* the Identity Resolver's key of a registration link: protocol, leading
\* www., query string and trailing slash stripped, then lowercased
IdentityKey(l) == Lower(l.rest)

Record(dates, prizePool, tags, link) ==
    [start_date |-> dates[1], end_date |-> dates[2],
     registration_deadline |-> dates[3], prizePool |-> prizePool,
     tags |-> tags, registration_link |-> link]

\* a source's list: each record with its provenance and place in the list
Listed(src, s) ==
    [k \in 1..Len(s) |->
        [idx |-> k, source |-> src] @@ s[k]]

Lists(src, Options, max) ==
    {Listed(src, s) : s \in UNION {[1..n -> Options] : n \in 0..max}}

----------------------------------------------------------------------------
(* The inputs the model draws from.  The program writes its curated list,  *)
(* its reference instant and its external record down as literals; the     *)
(* model lets them range over small sets holding the cases of the          *)
(* properties.                                                             *)

Hours == 0..MaxHour
EndTimes == Hours \cup {50}
RegTimes == {1, 97}
RefTimes == Hours \cup {29}

DefaultPrize == <<"$", "5", ",", "0", "0", "0">>
DefaultTags == <<"ai", "ml">>
DefaultLink == Link("https://", "", "x.com/e/42", FALSE, "")

Utc(t) == IsoDate(t, 0)

\* start <= end, the 50-hour event starting at 0, and one event that ends
\* before it starts (the classifier does not validate the order)
DateTriples ==
    {d \in Hours \X EndTimes \X RegTimes :
        \/ d[1] <= d[2] /\ (d[2] \notin Hours => d[1] = 0)
        \/ d[1] = 2 /\ d[2] = 1}

UnparseableDates ==
    {<<BadDate, Utc(2), Utc(1)>>, <<Utc(0), BadDate, Utc(1)>>,
     <<Utc(0), Utc(2), BadDate>>}

DateOptions ==
    {Record(<<Utc(d[1]), Utc(d[2]), Utc(d[3])>>, DefaultPrize, DefaultTags,
            DefaultLink) : d \in DateTriples}
    \cup {Record(d, DefaultPrize, DefaultTags, DefaultLink) :
            d \in UnparseableDates}

\* one completed, one ongoing and one upcoming event at reference 1
FewDates ==
    {<<Utc(0), Utc(0), Utc(1)>>, <<Utc(0), Utc(2), Utc(97)>>,
     <<Utc(2), Utc(3), Utc(1)>>}
FewRefs == {0, 1, 2}

PrizePools ==
    {<<"$", "7", "5", ",", "0", "0", "0">>,
     <<"$", "1", "0", "0", ",", "0", "0", "0">>,
     <<"$", "6", "5", ",", "0", "0", "0">>,
     <<"T", "B", "D">>,
     <<>>,
     <<"$", "5", " ", "-", " ", "$", "1", "0">>,
     <<"$", "1", ".", "5", "M">>}

PrizeOptions ==
    {Record(d, p, DefaultTags, DefaultLink) :
        d \in FewDates, p \in PrizePools}

TagLists ==
    {<<>>, <<"ai">>, <<"AI">>, <<"ml", "ai">>, <<"ai", "ai">>,
     <<"ai", "ml", "web3", "iot">>, <<"cloud", "ai", "AI", "ml">>,
     <<"iot", "cloud", "data">>}

TagOptions ==
    {Record(d, DefaultPrize, t, DefaultLink) : d \in FewDates, t \in TagLists}

Links ==
    {DefaultLink, Link("HTTP://", "WWW.", "X.COM/e/42", TRUE, "?utm=abc"),
     Link("https://", "", "y.org/h", FALSE, "")}

LinkOptions ==
    {Record(d, DefaultPrize, DefaultTags, l) : d \in FewDates, l \in Links}

ExternalOptions ==
    {Record(<<Utc(2), Utc(3), Utc(1)>>, DefaultPrize, DefaultTags, l) :
        l \in {Link("https://", "", "z.com/d", FALSE, ""),
               Link("http://", "www.", "x.com/e/42", TRUE, "")}}

CountOptions ==
    {Record(d, DefaultPrize, DefaultTags, DefaultLink) :
        d \in FewDates \cup {<<Utc(0), BadDate, Utc(1)>>}}

\* date strings of several offset spellings: "03:00+02:00" is the instant 1,
\* "02:00-01:00" the instant 3
OffsetDates == {Utc(0), Utc(2), Utc(3), IsoDate(3, 2), IsoDate(2, -1)}

\* events that start before they end
OffsetOptions ==
    {Record(d, DefaultPrize, DefaultTags, DefaultLink) :
        d \in {t \in OffsetDates \X OffsetDates \X OffsetDates :
                    fromisoformat(t[1]) < fromisoformat(t[2])}}

\* the external source returning one record
OneExternal ==
    {Listed("External",
            <<Record(<<Utc(2), Utc(3), Utc(1)>>, DefaultPrize, DefaultTags,
                     Link("https://", "", "z.com/d", FALSE, ""))>>)}

----------------------------------------------------------------------------
(* The state machine *)

\* the state on entry to the loop of categorize_hackathons
InitWith(Options, max, Refs, Externals) ==
    /\ hackathons \in Lists("Official", Options, max)
    /\ external \in Externals
    /\ current_date \in Refs
    /\ pc = "categorize"
    /\ err = "none"
    /\ i = 0
    /\ ongoing = <<>>
    /\ upcoming = <<>>
    /\ completed = <<>>
    /\ statistics =
        [total |-> Len(hackathons), ongoing_count |-> 0, upcoming_count |-> 0,
         completed_count |-> 0, total_prize_pool |-> 0,
         top_categories |-> <<>>]
    /\ total_prizes = 0
    /\ categories = <<>>
    /\ additional = <<>>
    /\ file = None
    /\ stamp = FALSE

DatesParse(h) ==
    Parses(h.start_date) /\ Parses(h.end_date)
    /\ Parses(h.registration_deadline)

\* how one pass of the loop ends
Outcome(h, ref) ==
    IF ~DatesParse(h) THEN "ValueError"
    ELSE IF DividesByZero(fromisoformat(h.start_date),
                          fromisoformat(h.end_date), ref)
    THEN "ZeroDivisionError"
    ELSE "ok"

\* one pass of "for hackathon in hackathons"; an exception leaves
\* categorize_hackathons, get_comprehensive_hackathons and main
LoopBody ==
    /\ pc = "categorize"
    /\ i < Len(hackathons)
    /\ LET h == hackathons[i + 1]
           out == Outcome(h, current_date)
           c == Classified(h, current_date)
           st == Status(fromisoformat(h.start_date),
                        fromisoformat(h.end_date), current_date)
       IN  /\ i' = i + 1
           /\ err' = IF out = "ok" THEN err ELSE out
           /\ pc' = IF out = "ok" THEN pc ELSE "aborted"
           /\ categories' =
                IF out = "ValueError" THEN categories
                ELSE CountTags(categories, h.tags)
           /\ total_prizes' =
                IF out = "ValueError" \/ ~PrizeParses(h.prizePool)
                THEN total_prizes
                ELSE total_prizes + PrizeAmount(h.prizePool)
           /\ completed' =
                IF out = "ok" /\ st = "completed"
                THEN Append(completed, c) ELSE completed
           /\ ongoing' =
                IF out = "ok" /\ st = "ongoing"
                THEN Append(ongoing, c) ELSE ongoing
           /\ upcoming' =
                IF out = "ok" /\ st = "upcoming"
                THEN Append(upcoming, c) ELSE upcoming
           /\ statistics' =
                IF out = "ok" THEN BumpCount(statistics, st) ELSE statistics
    /\ UNCHANGED <<hackathons, external, current_date, additional, file,
                   stamp>>

\* "Calculate statistics", "Top 5 categories", "Sort arrays", return
Finish ==
    /\ pc = "categorize"
    /\ i = Len(hackathons)
    /\ statistics' =
        [statistics EXCEPT
            !.total_prize_pool = total_prizes,
            !.top_categories = TopCategories(categories)]
    /\ ongoing' = SortOngoing(ongoing)
    /\ upcoming' = SortUpcoming(upcoming)
    /\ completed' = SortCompleted(completed)
    /\ pc' = "fetch"
    /\ UNCHANGED <<hackathons, external, current_date, err, i, total_prizes,
                   categories, additional, file, stamp>>

\* fetch_additional_hackathons: the source's records, or none when the
\* fetch raises; main keeps the list and does nothing with it
FetchAdditional ==
    /\ pc = "fetch"
    /\ \E ok \in BOOLEAN : additional' = IF ok THEN external ELSE <<>>
    /\ pc' = "write"
    /\ UNCHANGED <<hackathons, external, current_date, err, i, ongoing,
                   upcoming, completed, statistics, total_prizes, categories,
                   file, stamp>>

\* json.dump(data, f) into data/hackathons.json
WriteOutput ==
    /\ pc = "write"
    /\ file' =
        Some([ongoing |-> ongoing, upcoming |-> upcoming,
              completed |-> completed, statistics |-> statistics])
    /\ pc' = "stamp"
    /\ UNCHANGED <<hackathons, external, current_date, err, i, ongoing,
                   upcoming, completed, statistics, total_prizes, categories,
                   additional, stamp>>

\* data/last_update.txt, then the summary is printed
WriteStamp ==
    /\ pc = "stamp"
    /\ stamp' = TRUE
    /\ pc' = "done"
    /\ UNCHANGED <<hackathons, external, current_date, err, i, ongoing,
                   upcoming, completed, statistics, total_prizes, categories,
                   additional, file>>

Next == LoopBody \/ Finish \/ FetchAdditional \/ WriteOutput \/ WriteStamp

Init == InitWith(DateOptions, MaxRecords, RefTimes, OneExternal)
Spec == Init /\ [][Next]_vars

InitPrize == InitWith(PrizeOptions, MaxRecords, FewRefs, OneExternal)
SpecPrize == InitPrize /\ [][Next]_vars

InitTags == InitWith(TagOptions, MaxRecords, FewRefs, OneExternal)
SpecTags == InitTags /\ [][Next]_vars

InitSources ==
    InitWith(LinkOptions, MaxRecords, FewRefs,
             Lists("External", ExternalOptions, MaxRecords))

InitCounts == InitWith(CountOptions, MaxBatch, FewRefs, OneExternal)
SpecCounts == InitCounts /\ [][Next]_vars

InitOffsets == InitWith(OffsetOptions, MaxRecords, FewRefs, OneExternal)
SpecOffsets == InitOffsets /\ [][Next]_vars
SpecSources == InitSources /\ [][Next]_vars

----------------------------------------------------------------------------
(* Properties *)

Returned == pc \in {"fetch", "write", "stamp", "done"}
Output == ongoing \o upcoming \o completed
Written == file[1].ongoing \o file[1].upcoming \o file[1].completed

\* places of list s holding the record that raw record h became
Places(s, h) ==
    {k \in 1..Len(s) : s[k].idx = h.idx /\ s[k].source = h.source}

StartOf(h) == fromisoformat(h.start_date)
EndOf(h) == fromisoformat(h.end_date)
DeadlineOf(h) == fromisoformat(h.registration_deadline)

\* C1: every record the loop has taken whose dates parse with start <= end
\* is in exactly one of the three buckets, carries that bucket's name as its
\* status, and the bucket is completed iff end < reference, ongoing iff
\* start <= reference <= end, upcoming iff reference < start.
C1_OneBucketByDates ==
    \A k \in 1..i :
        LET h == hackathons[k]
        IN  (DatesParse(h) /\ StartOf(h) <= EndOf(h)) =>
            /\ Cardinality(Places(Output, h)) = 1
            /\ \A p \in Places(completed, h) :
                completed[p].status = Some("completed")
            /\ \A p \in Places(ongoing, h) :
                ongoing[p].status = Some("ongoing")
            /\ \A p \in Places(upcoming, h) :
                upcoming[p].status = Some("upcoming")
            /\ (Places(completed, h) # {}) <=> (EndOf(h) < current_date)
            /\ (Places(ongoing, h) # {}) <=>
                (StartOf(h) <= current_date /\ current_date <= EndOf(h))
            /\ (Places(upcoming, h) # {}) <=> (current_date < StartOf(h))

\* the same, for the records that do not start and end at the reference
C1_OneBucketUnlessZeroLength ==
    \A k \in 1..i :
        LET h == hackathons[k]
        IN  (/\ DatesParse(h)
             /\ StartOf(h) <= EndOf(h)
             /\ ~(StartOf(h) = EndOf(h) /\ StartOf(h) = current_date)) =>
            /\ Cardinality(Places(Output, h)) = 1
            /\ \A p \in Places(Output, h) :
                Output[p].status =
                    Some(IF EndOf(h) < current_date THEN "completed"
                         ELSE IF current_date < StartOf(h) THEN "upcoming"
                         ELSE "ongoing")

\* the links of two records are spelled differently and have one key
SameEvent(a, b) ==
    /\ a.registration_link # b.registration_link
    /\ IdentityKey(a.registration_link) = IdentityKey(b.registration_link)

\* C2: when two records given to the pipeline have registration links that
\* differ only in protocol, leading www., case, query string or trailing
\* slash, the written dataset holds one merged record for them: no two
\* records of the output buckets share an identity key.
C2_OneRecordPerIdentity ==
    pc = "done" =>
        \A p, q \in 1..Len(Written) :
            p # q => ~SameEvent(Written[p], Written[q])

\* C3: after main finishes, every record of every source whose fetch
\* succeeded, the curated list and the external source alike, is in exactly
\* one bucket of the written dataset and is counted in statistics.total.
C3_EverySourceInOutput ==
    pc = "done" =>
        /\ \A k \in 1..Len(hackathons) :
            Cardinality(Places(Written, hackathons[k])) = 1
        /\ \A k \in 1..Len(additional) :
            Cardinality(Places(Written, additional[k])) = 1
        /\ file[1].statistics.total = Len(hackathons) + Len(additional)

\* C4: a record with a date that does not parse never aborts the run: the
\* loop goes on past it, and when main is done every other record is in the
\* written dataset as it is classified on its own, while the bad record
\* has been given no status.
C4_BadDateDoesNotAbort ==
    /\ err # "ValueError"
    /\ pc = "done" =>
        \A k \in 1..Len(hackathons) :
            LET h == hackathons[k]
            IN  IF DatesParse(h)
                THEN \E p \in 1..Len(Written) :
                        Written[p] = Classified(h, current_date)
                ELSE \A p \in Places(Written, h) : Written[p].status = None

\* C5: an ongoing record with start = end = reference is classified without
\* a fault and gets progress_percentage 100.
C5_ZeroLengthIsComplete ==
    \A k \in 1..i :
        LET h == hackathons[k]
        IN  (/\ DatesParse(h)
             /\ StartOf(h) = EndOf(h)
             /\ StartOf(h) = current_date) =>
            /\ err # "ZeroDivisionError"
            /\ \E p \in Places(ongoing, h) :
                ongoing[p].progress_percentage = Some(100)

\* whole days and whole hours from the reference to an instant
WholeDays(t) == (t - current_date) \div HoursPerDay
WholeHours(t) == t - current_date

\* C6: whatever the status of a record, if reference < registration deadline
\* then registration_status is open, registration_days_remaining and
\* registration_hours_remaining are present and measure reference to the
\* deadline, and registration_urgency is urgent iff the whole days to the
\* deadline are <= 3, else normal; otherwise registration_status is closed
\* and the three other keys are absent.
C6_RegistrationWhateverStatus ==
    \A p \in 1..Len(Output) :
        LET h == Output[p]
            reg == DeadlineOf(h)
        IN  IF current_date < reg
            THEN /\ h.registration_status = Some("open")
                 /\ h.registration_days_remaining = Some(WholeDays(reg))
                 /\ h.registration_hours_remaining = Some(WholeHours(reg))
                 /\ h.registration_urgency =
                        Some(IF WholeDays(reg) <= 3 THEN "urgent"
                             ELSE "normal")
            ELSE /\ h.registration_status = Some("closed")
                 /\ h.registration_days_remaining = None
                 /\ h.registration_hours_remaining = None
                 /\ h.registration_urgency = None

\* the same, for the records that have not ended at the reference
C6_RegistrationUnlessEnded ==
    \A p \in 1..Len(ongoing \o upcoming) :
        LET h == (ongoing \o upcoming)[p]
            reg == DeadlineOf(h)
        IN  IF current_date < reg
            THEN /\ h.registration_status = Some("open")
                 /\ h.registration_days_remaining = Some(WholeDays(reg))
                 /\ h.registration_hours_remaining = Some(WholeHours(reg))
                 /\ h.registration_urgency =
                        Some(IF WholeDays(reg) <= 3 THEN "urgent"
                             ELSE "normal")
            ELSE /\ h.registration_status = Some("closed")
                 /\ h.registration_days_remaining = None
                 /\ h.registration_hours_remaining = None
                 /\ h.registration_urgency = None

\* n / d rounded to the nearest integer, for n >= 0 and d > 0
Nearest(n, d) == (2 * n + d) \div (2 * d)

\* C7 as stated: for every ongoing record with start < end,
\* progress_percentage is 100 (reference - start) / (end - start) rounded
\* to the nearest integer and clamped to [0, 100].
C7_ProgressRounded ==
    \A p \in 1..Len(ongoing) :
        LET h == ongoing[p]
            a == current_date - StartOf(h)
            b == EndOf(h) - StartOf(h)
        IN  b > 0 =>
            h.progress_percentage = Some(Min(100, Max(0, Nearest(100 * a, b))))

\* C7 as amended: for every ongoing record with start < end,
\* progress_percentage is 100 (reference - start) / (end - start) truncated
\* to an integer, within [0, 100]; the quotient being computed in double
\* precision, an exact 29, 57 or 58 comes out as 28, 56 or 57.
C7_ProgressTruncated ==
    \A p \in 1..Len(ongoing) :
        LET h == ongoing[p]
            a == current_date - StartOf(h)
            b == EndOf(h) - StartOf(h)
        IN  b > 0 =>
            \E v \in 0..100 :
                /\ h.progress_percentage = Some(v)
                /\ IF \E k \in {29, 57, 58} : 100 * a = k * b
                   THEN 100 * a = (v + 1) * b
                   ELSE v * b <= 100 * a /\ 100 * a < (v + 1) * b

\* an ongoing record two thirds of the way through (66, where rounding gives
\* 67) and one exactly 58 percent through (57)
C7_Witness ==
    /\ \E p \in 1..Len(ongoing) :
        /\ 3 * (current_date - StartOf(ongoing[p]))
            = 2 * (EndOf(ongoing[p]) - StartOf(ongoing[p]))
        /\ EndOf(ongoing[p]) > StartOf(ongoing[p])
        /\ ongoing[p].progress_percentage = Some(66)
    /\ Returned

C7_WitnessDouble ==
    \E p \in 1..Len(ongoing) :
        /\ 50 * (current_date - StartOf(ongoing[p]))
            = 29 * (EndOf(ongoing[p]) - StartOf(ongoing[p]))
        /\ EndOf(ongoing[p]) > StartOf(ongoing[p])
        /\ ongoing[p].progress_percentage = Some(57)

\* the maximal runs of consecutive digits of s, as <<first, last>> places
DigitRuns(s) ==
    {r \in (1..Len(s)) \X (1..Len(s)) :
        /\ r[1] <= r[2]
        /\ \A k \in r[1]..r[2] : s[k] \in Digits
        /\ (r[1] = 1 \/ s[r[1] - 1] \notin Digits)
        /\ (r[2] = Len(s) \/ s[r[2] + 1] \notin Digits)}

\* the value of the longest run of digits (the first of them, if several are
\* as long), 0 without a digit
LongestRunValue(s) ==
    IF DigitRuns(s) = {} THEN 0
    ELSE LET r == CHOOSE x \in DigitRuns(s) :
                    \A y \in DigitRuns(s) :
                        \/ y[2] - y[1] < x[2] - x[1]
                        \/ (y[2] - y[1] = x[2] - x[1] /\ x[1] <= y[1])
         IN  IntOfDigits(SubSeq(s, r[1], r[2]))

RECURSIVE SumPrizes(_)
SumPrizes(s) ==
    IF s = <<>> THEN 0 ELSE Head(s).prize_amount[1] + SumPrizes(Tail(s))

\* C8: each record's prize_amount is the value of the longest run of
\* consecutive digits of its prize-pool string with currency symbols and
\* commas stripped, 0 when it has no digit, and statistics.total_prize_pool
\* is the sum of prize_amount over all records.
C8_LongestRunOfDigits ==
    /\ \A p \in 1..Len(Output) :
        Output[p].prize_amount =
            Some(LongestRunValue(
                    Remove(Remove(Output[p].prizePool, "$"), ",")))
    /\ Returned => statistics.total_prize_pool = SumPrizes(Output)

\* what does hold: the total is the sum of the amounts the records carry
C8_TotalIsSum ==
    Returned => statistics.total_prize_pool = SumPrizes(Output)

\* C9: after each record the loop has processed, and in the result,
\* ongoing_count, upcoming_count and completed_count are the lengths of the
\* buckets of the same names; in the result their sum is statistics.total,
\* which is the number of input records.
C9_CountsAreBucketLengths ==
    /\ statistics.ongoing_count = Len(ongoing)
    /\ statistics.upcoming_count = Len(upcoming)
    /\ statistics.completed_count = Len(completed)
    /\ Returned =>
        /\ statistics.ongoing_count + statistics.upcoming_count
            + statistics.completed_count = statistics.total
        /\ statistics.total = Len(hackathons)

\* a result with every bucket filled
C9_Witness ==
    /\ pc = "done"
    /\ Len(ongoing) > 0
    /\ Len(upcoming) > 0
    /\ Len(completed) > 0
    /\ Len(hackathons) > 3

\* every tag of every input record, in input order
RECURSIVE TagsOf(_)
TagsOf(s) == IF s = <<>> THEN <<>> ELSE Head(s).tags \o TagsOf(Tail(s))

AllTags == TagsOf(hackathons)
TagSet == {AllTags[p] : p \in 1..Len(AllTags)}
Occurrences(tag) == Cardinality({p \in 1..Len(AllTags) : AllTags[p] = tag})
FirstSeen(tag) == CHOOSE p \in 1..Len(AllTags) :
    AllTags[p] = tag /\ \A q \in 1..(p - 1) : AllTags[q] # tag

\* C10: in the result, top_categories has min(5, number of distinct tags)
\* entries {name, count}; count is the number of occurrences of exactly that
\* string among all records' tags; the entries are in descending order of
\* count, those of equal count in the order the tags were first seen; and
\* no tag left out has a higher count than a listed one.
C10_TopCategories ==
    Returned =>
        LET top == statistics.top_categories
            Listed5 == {top[p].name : p \in 1..Len(top)}
        IN  /\ Len(top) = Min(5, Cardinality(TagSet))
            /\ Cardinality(Listed5) = Len(top)
            /\ \A p \in 1..Len(top) :
                /\ top[p].name \in TagSet
                /\ top[p].count = Occurrences(top[p].name)
            /\ \A p, q \in 1..Len(top) :
                p < q =>
                    \/ top[p].count > top[q].count
                    \/ /\ top[p].count = top[q].count
                       /\ FirstSeen(top[p].name) < FirstSeen(top[q].name)
            /\ \A t \in TagSet \ Listed5 :
                \A p \in 1..Len(top) : Occurrences(t) <= top[p].count

\* a result that leaves a tag out, lists tags of equal count, and counts
\* "ai" and "AI" apart
C10_Witness ==
    /\ pc = "done"
    /\ Cardinality(TagSet) > 5
    /\ Len(statistics.top_categories) = 5
    /\ statistics.top_categories[1].count = statistics.top_categories[2].count
    /\ statistics.top_categories[1].count > statistics.top_categories[5].count
    /\ {"ai", "AI"} \subseteq TagSet

\* s is in ascending order of the keys, keys[k] being the key of s[k]
Ascending(s, keys) ==
    \A p, q \in 1..Len(s) : p < q => ~LexLess(keys[q], keys[p])

\* C11: in the result, for date strings of any offset spelling the
\* classifier accepts, ongoing is in ascending order of end_date, upcoming
\* in ascending order of the pair (registration_deadline, start_date) and
\* completed in descending order of end_date, every date compared as the
\* instant it denotes.
C11_BucketsInInstantOrder ==
    Returned =>
        /\ Ascending(ongoing, [k \in 1..Len(ongoing) |-> <<EndOf(ongoing[k])>>])
        /\ Ascending(upcoming,
                     [k \in 1..Len(upcoming) |->
                        <<DeadlineOf(upcoming[k]), StartOf(upcoming[k])>>])
        /\ Ascending(completed,
                     [k \in 1..Len(completed) |-> <<-EndOf(completed[k])>>])

\* what does hold: the buckets are in the order of the date strings as text
C11_BucketsInTextOrder ==
    Returned =>
        /\ Ascending(ongoing, [k \in 1..Len(ongoing) |-> EndKey(ongoing[k])])
        /\ Ascending(upcoming,
                     [k \in 1..Len(upcoming) |->
                        DeadlineStartKey(upcoming[k])])
        /\ Ascending(completed,
                     [k \in 1..Len(completed) |->
                        <<-EndKey(completed[k])[1], -EndKey(completed[k])[2]>>])

\* C12: on every run of main, also one that a failing step ends, a valid
\* (possibly empty) dataset has been written to data/hackathons.json by the
\* time main ends.
C12_DatasetWrittenWhenMainEnds ==
    pc \in {"done", "aborted"} => file # None

\* what does hold: a run that classification does not end writes the dataset
C12_DatasetWrittenWhenDone ==
    pc = "done" =>
        /\ file # None
        /\ file[1].statistics.total = Len(hackathons)

====
